---------------------------- MODULE Spec2Model ----------------------------
(***************************************************************************)
(* Receipt processor: the field extractors, the record validator and the  *)
(* pipeline of src/app/ocr.py, and the upload handler of src/app/web.py.  *)
(*                                                                         *)
(* A Python str is a sequence of one-character strings, so that substring *)
(* tests, case conversion, splitting and the regular expressions of the   *)
(* extractors are computed character by character.  A Python dict is a    *)
(* function from key strings; a Python list is a sequence.                *)
(***************************************************************************)
EXTENDS Integers, Sequences, FiniteSets, TLC

VARIABLES
    input,          \* the argument handed to the function under study
    output,         \* what the function returned (or that it raised)
    output2,        \* what validating output a second time returned
    stage,          \* "input" | "done" | "again"
    pc,             \* web: each request's position in index()
    upload,         \* web: the file part each request carries
    data,           \* web: index()'s local `data`
    all_receipts,   \* web: index()'s local `all_receipts`
    store,          \* web: the contents of recibos.json
    folder,         \* web: the image saved in the upload folder, by file name
    excel,          \* web: the rows of recibo.xlsx
    response,       \* web: how each request ended
    saved           \* web: the requests that ran save_all_receipts (history)

funcVars == <<input, output, output2, stage>>
webVars == <<pc, upload, data, all_receipts, store, folder, excel, response, saved>>
vars == <<input, output, output2, stage, pc, upload, data, all_receipts,
          store, folder, excel, response, saved>>

---------------------------------------------------------------------------
(* Python values and str methods                                           *)

\* Python's None: a value that is no str (no str holds a multi-character item).
PyNone == <<"<None>">>

\* bool(v) for None and for a str.
Truthy(v) == v # PyNone /\ v # <<>>

\* dict.get(k) with the default None.
Get(d, k) == IF k \in DOMAIN d THEN d[k] ELSE PyNone

\* dict.update: the entries of e override those of d.
Update(d, e) ==
    [k \in DOMAIN d \cup DOMAIN e |-> IF k \in DOMAIN e THEN e[k] ELSE d[k]]

UPPER == <<"A","B","C","D","E","F","G","H","I","J","K","L","M","N","O","P","Q","R","S","T","U","V","W","X","Y","Z">>
LOWER == <<"a","b","c","d","e","f","g","h","i","j","k","l","m","n","o","p","q","r","s","t","u","v","w","x","y","z">>

LowerChar(c) ==
    IF \E i \in 1..Len(UPPER) : UPPER[i] = c
    THEN LOWER[CHOOSE i \in 1..Len(UPPER) : UPPER[i] = c]
    ELSE c

UpperChar(c) ==
    IF \E i \in 1..Len(LOWER) : LOWER[i] = c
    THEN UPPER[CHOOSE i \in 1..Len(LOWER) : LOWER[i] = c]
    ELSE c

\* str.lower() and str.upper()
Lower(s) == [i \in 1..Len(s) |-> LowerChar(s[i])]
Upper(s) == [i \in 1..Len(s) |-> UpperChar(s[i])]

IsDigit(c) == c \in {"0","1","2","3","4","5","6","7","8","9"}

\* \s of the re module, and what str.strip() removes
IsSpace(c) == c \in {" ", "\n", "\t"}

\* \w of the re module
IsWord(c) == IsDigit(c) \/ c = "_" \/ (\E i \in 1..Len(LOWER) : LOWER[i] = c \/ UPPER[i] = c)

\* s[i:i+len(lit)] == lit, for a 1-based i
LitAt(s, i, lit) ==
    /\ i >= 1
    /\ i + Len(lit) - 1 <= Len(s)
    /\ \A k \in 1..Len(lit) : s[i + k - 1] = lit[k]

\* sub in s
Contains(s, sub) == \E i \in 1..(Len(s) - Len(sub) + 1) : LitAt(s, i, sub)

\* s.find(sep) from the 1-based index i on, as a 1-based index; 0 when sep
\* does not occur there
RECURSIVE FindFrom(_, _, _)
FindFrom(s, sep, i) ==
    IF i + Len(sep) - 1 > Len(s) THEN 0
    ELSE IF LitAt(s, i, sep) THEN i
    ELSE FindFrom(s, sep, i + 1)

Find(s, sep) == FindFrom(s, sep, 1)

\* s.split(sep)[0]
SplitFirst(s, sep) ==
    LET at == Find(s, sep)
    IN  IF at = 0 THEN s ELSE SubSeq(s, 1, at - 1)

\* s.split(sep)
RECURSIVE Split(_, _)
Split(s, sep) ==
    LET at == Find(s, sep)
    IN  IF at = 0 THEN <<s>>
        ELSE <<SubSeq(s, 1, at - 1)>> \o Split(SubSeq(s, at + Len(sep), Len(s)), sep)

\* s.strip()
RECURSIVE LStrip(_)
LStrip(s) == IF s # <<>> /\ IsSpace(Head(s)) THEN LStrip(Tail(s)) ELSE s

RECURSIVE RStrip(_)
RStrip(s) ==
    IF s # <<>> /\ IsSpace(s[Len(s)]) THEN RStrip(SubSeq(s, 1, Len(s) - 1)) ELSE s

Strip(s) == RStrip(LStrip(s))

\* s.replace(c, '') for a one-character c
Remove(s, c) == SelectSeq(s, LAMBDA x : x # c)

\* s.replace(c, d) for one-character c and d
Replace(s, c, d) == [i \in 1..Len(s) |-> IF s[i] = c THEN d ELSE s[i]]

\* s.zfill(2)
Zfill2(s) == IF Len(s) = 0 THEN <<"0","0">> ELSE IF Len(s) = 1 THEN <<"0">> \o s ELSE s

\* the concatenation of a sequence of strs
RECURSIVE Flatten(_)
Flatten(ss) == IF ss = <<>> THEN <<>> ELSE Head(ss) \o Flatten(Tail(ss))

\* '\n'.join(lines)
RECURSIVE JoinLines(_)
JoinLines(ls) ==
    IF ls = <<>> THEN <<>>
    ELSE IF Len(ls) = 1 THEN ls[1]
    ELSE ls[1] \o <<"\n">> \o JoinLines(Tail(ls))

---------------------------------------------------------------------------
(* The sentinel strings of the extractors and of the validator             *)

VENDEDOR_NO_ENCONTRADO == <<"V","E","N","D","E","D","O","R"," ","N","O"," ","E","N","C","O","N","T","R","A","D","O">>
VENDEDOR_DESCONOCIDO == <<"V","e","n","d","e","d","o","r"," ","d","e","s","c","o","n","o","c","i","d","o">>
TOTAL_NO_ENCONTRADO == <<"T","O","T","A","L"," ","N","O"," ","E","N","C","O","N","T","R","A","D","O">>
NO_ENCONTRADO == <<"N","O"," ","E","N","C","O","N","T","R","A","D","O">>
NO_ENCONTRADA == <<"N","O"," ","E","N","C","O","N","T","R","A","D","A">>
NoneStr == <<"N","o","n","e">>

---------------------------------------------------------------------------
(* validate_receipt_data                                                   *)

\* the `validation` dict: one {required, valid} entry per required field
validation(d) ==
    [k \in {"fecha", "vendedor", "total"} |->
        [required |-> TRUE,
         valid |->
            CASE k = "fecha" ->
                    Truthy(Get(d, "fecha")) /\ d["fecha"] # NoneStr
              [] k = "vendedor" ->
                    Truthy(Get(d, "vendedor")) /\ ~Contains(d["vendedor"], NO_ENCONTRADO)
              [] k = "total" ->
                    Truthy(Get(d, "total")) /\ ~Contains(d["total"], NO_ENCONTRADO)]]

\* the keys of `validation` in insertion order
validation_keys == <<"fecha", "vendedor", "total">>

is_valid_any(d) ==
    \E k \in DOMAIN validation(d) :
        validation(d)[k].required /\ validation(d)[k].valid

is_valid(d) ==
    \A k \in DOMAIN validation(d) :
        validation(d)[k].required => validation(d)[k].valid

missing_fields(d) ==
    SelectSeq(validation_keys,
              LAMBDA k : validation(d)[k].required /\ ~validation(d)[k].valid)

validate_receipt_data(d) ==
    Update(d, [es_valido |-> is_valid(d),
               campos_faltantes |-> missing_fields(d),
               validation_details |-> validation(d)])

---------------------------------------------------------------------------
(* extract_vendor                                                          *)

blacklist == {
    <<"e","s","p","a","c","i","o"," ","p","a","r","a">>,
    <<"l","o","g","o">>,
    <<"n","o","t","a">>,
    <<"f","a","c","t","u","r","a">>,
    <<"r","e","c","i","b","o">>,
    <<"c","o","d">>,
    <<"f","e","c","h","a">>,
    <<"n","i","t">>,
    <<"g","r","a","n"," ","c","o","n","t","r","i","b","u","y","e","n","t","e">>}

\* the loop's lines: text.split('\n'), each stripped
vendor_lines(text) ==
    LET lines == Split(text, <<"\n">>)
    IN  [i \in 1..Len(lines) |-> Strip(lines[i])]

\* the loop's condition on a stripped line
vendor_candidate(line) ==
    /\ line # <<>>
    /\ Len(line) > 3
    /\ ~\E word \in blacklist : Contains(Lower(line), word)

\* the clean-up of the chosen line: cut at NIT, Nit, RUT, RUC, drop the digit
\* runs, strip
vendor_clean(line) ==
    Strip(SelectSeq(
        SplitFirst(SplitFirst(SplitFirst(SplitFirst(line,
            <<"N","I","T">>), <<"N","i","t">>), <<"R","U","T">>), <<"R","U","C">>),
        LAMBDA c : ~IsDigit(c)))

\* a variant that returns the cleaned line even when nothing is left of it
extract_vendor_no_fallback(text) ==
    LET ls == vendor_lines(text)
        hits == {i \in 1..Len(ls) : vendor_candidate(ls[i])}
    IN  IF hits = {} THEN VENDEDOR_DESCONOCIDO
        ELSE vendor_clean(ls[CHOOSE i \in hits : \A j \in hits : i <= j])

extract_vendor(text) ==
    LET ls == vendor_lines(text)
        hits == {i \in 1..Len(ls) : vendor_candidate(ls[i])}
        vendor == vendor_clean(ls[CHOOSE i \in hits : \A j \in hits : i <= j])
    IN  IF hits = {} THEN VENDEDOR_DESCONOCIDO
        ELSE IF vendor # <<>> THEN vendor
        ELSE VENDEDOR_NO_ENCONTRADO

---------------------------------------------------------------------------
(* extract_total                                                           *)

\* the number of digits that stand in a row from s[i] on
RECURSIVE DigitsFrom(_, _)
DigitsFrom(s, i) ==
    IF i >= 1 /\ i <= Len(s) /\ IsDigit(s[i]) THEN 1 + DigitsFrom(s, i + 1) ELSE 0

\* \s* from s[i] on: the index after the blanks
RECURSIVE SkipSpaces(_, _)
SkipSpaces(s, i) ==
    IF i <= Len(s) /\ IsSpace(s[i]) THEN SkipSpaces(s, i + 1) ELSE i

\* (?:G\d{3})* from s[i] on, for the group separator g: the index after the
\* last group.  The repetition is greedy, and giving a group back never
\* helps: what follows in the patterns is the other separator.
RECURSIVE SkipGroups(_, _, _)
SkipGroups(s, i, g) ==
    IF /\ i + 3 <= Len(s)
       /\ s[i] = g
       /\ IsDigit(s[i + 1]) /\ IsDigit(s[i + 2]) /\ IsDigit(s[i + 3])
    THEN SkipGroups(s, i + 4, g)
    ELSE i

\* \d{1,3}(?:G\d{3})*(?:D\d{2}) at s[i], for the group separator g and the
\* decimal separator d: the index after the match, 0 when there is none.
\* \d{1,3} must take the whole digit run: after fewer digits comes a digit,
\* where the pattern wants a separator.
AmountAt(s, i, g, d) ==
    LET n == DigitsFrom(s, i)
        j == SkipGroups(s, i + n, g)
    IN  IF /\ n >= 1 /\ n <= 3
           /\ j + 2 <= Len(s)
           /\ s[j] = d
           /\ IsDigit(s[j + 1]) /\ IsDigit(s[j + 2])
        THEN j + 3
        ELSE 0

\* \s*(?:$|€|usd) at s[i]: after the blanks comes the end of the string,
\* a euro sign or 'usd'
TailAt(s, i) ==
    LET q == SkipSpaces(s, i)
    IN  \/ q > Len(s)
        \/ LitAt(s, q, <<"€">>)
        \/ LitAt(s, q, <<"u","s","d">>)

\* patterns[p - 1] matched at s[i]: the index after group 1, 0 for no match
total_pattern_at(p, s, i) ==
    CASE p = 1 ->
            LET e == AmountAt(s, i, ".", ",")
            IN  IF e # 0 /\ TailAt(s, e) THEN e ELSE 0
      [] p = 2 ->
            IF s[i] = "$" THEN AmountAt(s, SkipSpaces(s, i + 1), ".", ",") ELSE 0
      [] p = 3 ->
            LET e == AmountAt(s, i, ",", ".")
            IN  IF e # 0 /\ TailAt(s, e) THEN e ELSE 0

\* re.search(patterns[p - 1], s).group(1), from s[i] on: the leftmost match;
\* None when there is none
RECURSIVE total_search(_, _, _)
total_search(p, s, i) ==
    IF i > Len(s) THEN PyNone
    ELSE IF total_pattern_at(p, s, i) # 0
         THEN SubSeq(s, i, total_pattern_at(p, s, i) - 1)
         ELSE total_search(p, s, i + 1)

\* the "standardize format" lines
total_standardize(amount) ==
    LET a == Remove(Remove(amount, "$"), " ")
    IN  IF Contains(a, <<".">>) /\ Contains(a, <<",">>)
        THEN Replace(Remove(a, "."), ",", ".")
        ELSE IF Contains(a, <<",">>) THEN Remove(a, ",")
        ELSE a

\* float(a) does not raise: a, once stripped, is digits with at most one '.'
float_ok(a) ==
    LET t == Strip(a)
    IN  /\ \E i \in 1..Len(t) : IsDigit(t[i])
        /\ \A i \in 1..Len(t) : IsDigit(t[i]) \/ t[i] = "."
        /\ Len(SelectSeq(t, LAMBDA c : c = ".")) <= 1

DigitVal(c) == CHOOSE n \in 0..9 : <<"0","1","2","3","4","5","6","7","8","9">>[n + 1] = c

RECURSIVE NatOf(_)
NatOf(ds) ==
    IF ds = <<>> THEN 0 ELSE NatOf(SubSeq(ds, 1, Len(ds) - 1)) * 10 + DigitVal(ds[Len(ds)])

RECURSIVE DigitsOf(_)
DigitsOf(n) ==
    IF n < 10 THEN <<<<"0","1","2","3","4","5","6","7","8","9">>[n + 1]>>
    ELSE DigitsOf(n \div 10) \o DigitsOf(n % 10)

\* the digits of an integer part as float prints them: no leading zeros
RECURSIVE StripZeros(_)
StripZeros(ds) ==
    IF ds = <<>> THEN <<"0">>
    ELSE IF Len(ds) > 1 /\ ds[1] = "0" THEN StripZeros(Tail(ds))
    ELSE ds

\* f"${float(a):.2f}".replace('.', ','), for an a that float accepts.  The
\* decimals after the second decide the rounding.  For a.bc5 followed by
\* zeros only, the result depends on the binary64 value nearest to a.bc5,
\* which is not computed here: such an amount gives "$?".
total_format(a) ==
    LET t == Strip(a)
        dot == Find(t, <<".">>)
        ip == IF dot = 0 THEN t ELSE SubSeq(t, 1, dot - 1)
        fp == IF dot = 0 THEN <<>> ELSE SubSeq(t, dot + 1, Len(t))
        two == SubSeq(fp \o <<"0","0">>, 1, 2)
        rest == SubSeq(fp, 3, Len(fp))
        tie == /\ rest # <<>> /\ rest[1] = "5"
               /\ \A i \in 2..Len(rest) : rest[i] = "0"
        up == rest # <<>> /\ DigitVal(rest[1]) >= 5
    IN  IF tie THEN <<"$","?">>
        ELSE IF ~up THEN <<"$">> \o StripZeros(ip) \o <<",">> \o two
        ELSE IF NatOf(two) + 1 < 100
             THEN <<"$">> \o StripZeros(ip) \o <<",">>
                    \o Zfill2(DigitsOf(NatOf(two) + 1))
             ELSE <<"$">> \o DigitsOf(NatOf(ip) + 1) \o <<",","0","0">>

\* total_lines: the lines holding 'total', 'pagar' or 'importe', lower-cased
total_lines(text) ==
    LET lines == Split(text, <<"\n">>)
        low == [i \in 1..Len(lines) |-> Lower(lines[i])]
    IN  SelectSeq(low,
            LAMBDA l : \E word \in {<<"t","o","t","a","l">>, <<"p","a","g","a","r">>,
                                    <<"i","m","p","o","r","t","e">>} :
                            Contains(l, word))

\* a variant that scans the whole text before the total lines
total_scanned_text_first(text) == <<text>> \o total_lines(text)

\* what the outer loop runs over: total_lines + [text]
total_scanned(text) == total_lines(text) \o <<text>>

\* the two loops from line li, pattern p on: the first match that float
\* accepts is returned; a ValueError moves on to the next pattern
RECURSIVE total_loop(_, _, _)
total_loop(lines, li, p) ==
    IF li > Len(lines) THEN TOTAL_NO_ENCONTRADO
    ELSE IF p > 3 THEN total_loop(lines, li + 1, 1)
    ELSE LET match == total_search(p, lines[li], 1)
         IN  IF match # PyNone /\ float_ok(total_standardize(match))
             THEN total_format(total_standardize(match))
             ELSE total_loop(lines, li, p + 1)

extract_total(text) == total_loop(total_scanned(text), 1, 1)

---------------------------------------------------------------------------
(* extract_spanish_date                                                    *)

\* the month names as the set literal lists them
MonthNames == <<
    <<"e","n","e","r","o">>,
    <<"f","e","b","r","e","r","o">>,
    <<"m","a","r","z","o">>,
    <<"a","b","r","i","l">>,
    <<"m","a","y","o">>,
    <<"j","u","n","i","o">>,
    <<"j","u","l","i","o">>,
    <<"a","g","o","s","t","o">>,
    <<"s","e","p","t","i","e","m","b","r","e">>,
    <<"o","c","t","u","b","r","e">>,
    <<"n","o","v","i","e","m","b","r","e">>,
    <<"d","i","c","i","e","m","b","r","e">>>>

Range(seq) == {seq[k] : k \in DOMAIN seq}

SPANISH_MONTHS == Range(MonthNames)

\* the only member of a set of at most one str, <<>> for the empty set
OnlyOf(strs) == IF strs = {} THEN <<>> ELSE CHOOSE m \in strs : TRUE

\* '|'.join(SPANISH_MONTHS) at s[i]: the month name that stands there, <<>>
\* for none.  No name begins another, so the order of the alternatives, which
\* is the set's iteration order, does not matter.
MonthAt(s, i) == OnlyOf({m \in SPANISH_MONTHS : LitAt(s, i, m)})

\* '|'.join(m[:3] ...) at s[i]: the three-letter abbreviation that stands there
AbbrAt(s, i) ==
    IF \E m \in SPANISH_MONTHS : LitAt(s, i, SubSeq(m, 1, 3))
    THEN SubSeq(s, i, i + 2)
    ELSE <<>>

\* the same with \.? after it: the greedy optional dot is taken when it is
\* there; what follows in the patterns is \s+, which no dot satisfies
AbbrDotAt(s, i) ==
    IF AbbrAt(s, i) = <<>> THEN <<>>
    ELSE SubSeq(s, i, IF LitAt(s, i + 3, <<".">>) THEN i + 3 ELSE i + 2)

\* The pieces of the worded patterns.  The ...At pieces give the text that
\* stands at s[i], <<>> for none; the ...End pieces give the index after it,
\* 0 for none, and give 0 for the index 0, so that a piece that fails makes
\* all that follows it fail.

\* (\d{1,2}) at s[i] when a non-digit has to follow: the whole run of one or
\* two digits, <<>> for none or for a longer run
Digits12At(s, i) ==
    IF DigitsFrom(s, i) \in {1, 2} THEN SubSeq(s, i, i + DigitsFrom(s, i) - 1) ELSE <<>>

Digits12End(s, i) == IF Digits12At(s, i) # <<>> THEN i + Len(Digits12At(s, i)) ELSE 0

\* \s+ at s[i]: the index after the blanks, 0 when no blank stands there
Spaces1(s, i) == IF i # 0 /\ SkipSpaces(s, i) > i THEN SkipSpaces(s, i) ELSE 0

\* a literal at s[i]
LitEnd(s, i, lit) == IF LitAt(s, i, lit) THEN i + Len(lit) ELSE 0

\* de? at s[i]: the greedy optional e is taken when it is there; what follows
\* is \s+, which no e satisfies
DeEnd(s, i) ==
    IF ~LitAt(s, i, <<"d">>) THEN 0
    ELSE IF LitAt(s, i + 1, <<"e">>) THEN i + 2 ELSE i + 1

MonthEnd(s, i) == IF MonthAt(s, i) # <<>> THEN i + Len(MonthAt(s, i)) ELSE 0

AbbrDotEnd(s, i) == IF AbbrDotAt(s, i) # <<>> THEN i + Len(AbbrDotAt(s, i)) ELSE 0

\* (\d{4}) at s[i]: the first four of a run of digits
YearAt(s, i) == IF DigitsFrom(s, i) >= 4 THEN SubSeq(s, i, i + 3) ELSE <<>>

\* [/-] at s[i]
SepEnd(s, i) == IF i >= 1 /\ i <= Len(s) /\ s[i] \in {"/", "-"} THEN i + 1 ELSE 0

\* (\d{4})(?:\b|\D) at s[i], a digit having to follow: between the year and
\* that digit \b cannot hold, so \D takes one non-digit after the four digits
Year4NonDigitEnd(s, i) ==
    IF DigitsFrom(s, i) = 4 /\ i + 4 <= Len(s) THEN i + 5 ELSE 0

\* (\d{2,4})\b at s[i]: a run of two to four digits that no word character
\* follows; a shorter part of the run would be followed by a digit
Digits24WordEnd(s, i) ==
    IF /\ DigitsFrom(s, i) \in 2..4
       /\ (i + DigitsFrom(s, i) > Len(s) \/ ~IsWord(s[i + DigitsFrom(s, i)]))
    THEN i + DigitsFrom(s, i)
    ELSE 0

\* the groups of a match, <<>> when one of them did not match
Groups(day, month, year) ==
    IF day # <<>> /\ month # <<>> /\ year # <<>> THEN <<day, month, year>> ELSE <<>>

IsSep(s, i) == i >= 1 /\ i <= Len(s) /\ s[i] \in {"/", "-"}

NotDigitAt(s, i) == i < 1 \/ i > Len(s) \/ ~IsDigit(s[i])

\* patterns[0]: (?<!\d)(\d{2})[/-](\d{2})[/-](\d{4})(?!\d)
date_numeric_at(s, i) ==
    IF /\ NotDigitAt(s, i - 1)
       /\ DigitsFrom(s, i) = 2 /\ IsSep(s, i + 2)
       /\ DigitsFrom(s, i + 3) = 2 /\ IsSep(s, i + 5)
       /\ DigitsFrom(s, i + 6) = 4
    THEN <<SubSeq(s, i, i + 1), SubSeq(s, i + 3, i + 4), SubSeq(s, i + 6, i + 9)>>
    ELSE <<>>

\* patterns[1]: (?<!\d)(\d{2})[-/](ene|feb|...)[-/](\d{4})(?!\d)
date_dash_abbr_at(s, i) ==
    IF /\ NotDigitAt(s, i - 1)
       /\ DigitsFrom(s, i) = 2 /\ IsSep(s, i + 2)
       /\ AbbrAt(s, i + 3) # <<>> /\ IsSep(s, i + 6)
       /\ DigitsFrom(s, i + 7) = 4
    THEN <<SubSeq(s, i, i + 1), SubSeq(s, i + 3, i + 5), SubSeq(s, i + 7, i + 10)>>
    ELSE <<>>

\* (\d{1,2})\s+de\s+ at s[i]: the index where the month has to stand
DayDeEnd(s, i) == Spaces1(s, LitEnd(s, Spaces1(s, Digits12End(s, i)), <<"d","e">>))

\* patterns[2], two literals that the missing comma after the first joins:
\* (\d{1,2})\s+de\s+(ene\.?|...)\s+de?\s+(\d{4})
\* (?:\b|\D)(\d{1,2})[/-](\d{1,2})[/-](\d{2,4})\b
\* the index where the year of the first literal has to stand
date_joined_year(s, i) == Spaces1(s, DeEnd(s, Spaces1(s, AbbrDotEnd(s, DayDeEnd(s, i)))))

\* whether the year and the second literal stand at s[d]
date_joined_digits_at(s, d) ==
    Digits24WordEnd(s, SepEnd(s, Digits12End(s, SepEnd(s, Digits12End(s,
        Year4NonDigitEnd(s, d)))))) # 0

date_joined_at(s, i) ==
    IF date_joined_digits_at(s, date_joined_year(s, i))
    THEN Groups(Digits12At(s, i), AbbrDotAt(s, DayDeEnd(s, i)),
                YearAt(s, date_joined_year(s, i)))
    ELSE <<>>

\* patterns[3]: (\d{1,2})\s+de\s+(enero|...)\s+de\s+(\d{4})
date_month_name_at(s, i) ==
    Groups(Digits12At(s, i),
           MonthAt(s, DayDeEnd(s, i)),
           YearAt(s, Spaces1(s, LitEnd(s, Spaces1(s, MonthEnd(s, DayDeEnd(s, i))),
                                       <<"d","e">>))))

\* patterns[4]: (\d{1,2})\s+(ene\.?|...)\s+(\d{4})
date_abbr_at(s, i) ==
    Groups(Digits12At(s, i),
           AbbrDotAt(s, Spaces1(s, Digits12End(s, i))),
           YearAt(s, Spaces1(s, AbbrDotEnd(s, Spaces1(s, Digits12End(s, i))))))

\* the number of entries of `patterns`
NumDatePatterns == 5

\* patterns[p - 1] matched at s[i]: <<group(1), group(2), group(3)>>, <<>> for
\* no match
date_pattern_at(p, s, i) ==
    CASE p = 1 -> date_numeric_at(s, i)
      [] p = 2 -> date_dash_abbr_at(s, i)
      [] p = 3 -> date_joined_at(s, i)
      [] p = 4 -> date_month_name_at(s, i)
      [] p = 5 -> date_abbr_at(s, i)

\* re.search(patterns[p - 1], s) from s[i] on: the groups of the leftmost match
RECURSIVE date_search(_, _, _)
date_search(p, s, i) ==
    IF i > Len(s) THEN <<>>
    ELSE IF date_pattern_at(p, s, i) # <<>> THEN date_pattern_at(p, s, i)
    ELSE date_search(p, s, i + 1)

\* len(pattern.split()): the patterns spell their blanks \s, so none of them
\* holds white space and split() returns the pattern whole
pattern_words(p) == 1

\* the number of the month whose name begins with the first three letters of
\* month_str: the text-month branch.  It numbers the months by the set's
\* iteration order, for which the order of the literal stands here.
month_index(names, month_str) ==
    CHOOSE k \in DOMAIN names : LitAt(names[k], 1, SubSeq(month_str, 1, 3))

month_number(month_str) == DigitsOf(month_index(MonthNames, month_str))

\* what is returned for a match: the day, the month and the year
date_format(p, match) ==
    LET day == match[1]
        month == IF pattern_words(p) > 4 THEN month_number(match[2]) ELSE match[2]
        year == match[3]
        year4 == IF Len(year) = 2
                 THEN (IF NatOf(year) < 30 THEN <<"2","0">> ELSE <<"1","9">>) \o year
                 ELSE year
    IN  Zfill2(day) \o <<"/">> \o Zfill2(month) \o <<"/">> \o year4

\* the loop over the patterns from pattern p on, text already lower-cased
RECURSIVE date_loop(_, _)
date_loop(low, p) ==
    IF p > NumDatePatterns THEN PyNone
    ELSE IF date_search(p, low, 1) # <<>>
         THEN date_format(p, date_search(p, low, 1))
         ELSE date_loop(low, p + 1)

extract_spanish_date(text) == date_loop(Lower(text), 1)

---------------------------------------------------------------------------
(* extract_items                                                           *)

ARTICULOS_NO_ENCONTRADOS == <<"A","R","T","Í","C","U","L","O","S"," ","N","O"," ","E","N","C","O","N","T","R","A","D","O","S">>

\* re.search(r'\d+[\.,]\d{2}', line): a digit, '.' or ',', and two digits
has_price(line) ==
    \E k \in 1..(Len(line) - 3) :
        /\ IsDigit(line[k]) /\ line[k + 1] \in {".", ","}
        /\ IsDigit(line[k + 2]) /\ IsDigit(line[k + 3])

\* ' '.join(s.split()): the words of s with one blank between them
RECURSIVE JoinWords(_)
JoinWords(s) ==
    LET t == LStrip(s)
        n == IF \E k \in 1..Len(t) : IsSpace(t[k])
             THEN (CHOOSE k \in 1..Len(t) :
                        IsSpace(t[k]) /\ \A j \in 1..(k - 1) : ~IsSpace(t[j])) - 1
             ELSE Len(t)
        rest == LStrip(SubSeq(t, n + 1, Len(t)))
    IN  IF t = <<>> THEN <<>>
        ELSE IF rest = <<>> THEN SubSeq(t, 1, n)
        ELSE SubSeq(t, 1, n) \o <<" ">> \o JoinWords(rest)

extract_items(text) ==
    LET lines == Split(text, <<"\n">>)
        item_lines == SelectSeq(lines, has_price)
    IN  IF item_lines # <<>>
        THEN JoinLines([i \in 1..Len(item_lines) |-> JoinWords(item_lines[i])])
        ELSE ARTICULOS_NO_ENCONTRADOS

---------------------------------------------------------------------------
(* extract_text_from_image and process_receipt                             *)

\* An image is what the recognizer makes of it: `ok` says whether it can be
\* read and recognized at all, `text` is the text pytesseract returns.  A
\* call's outcome is `raised` and, when nothing was raised, `value`.

\* preprocess_image and pytesseract fail with an exception, which is raised
\* again as ValueError; otherwise the recognized text, stripped
extract_text_from_image(image) ==
    IF image.ok THEN [raised |-> FALSE, value |-> Strip(image.text)]
    ELSE [raised |-> TRUE, value |-> <<>>]

\* a variant that forgets the raw text
extracted_data_no_raw_text(raw_text) ==
    [fecha |-> extract_spanish_date(raw_text),
     vendedor |-> extract_vendor(raw_text),
     total |-> extract_total(raw_text),
     articulos |-> extract_items(raw_text)]

\* the extracted_data dict
extracted_data(raw_text) ==
    [fecha |-> extract_spanish_date(raw_text),
     vendedor |-> extract_vendor(raw_text),
     total |-> extract_total(raw_text),
     articulos |-> extract_items(raw_text),
     texto_crudo |-> raw_text]

\* process_receipt has no try: what extract_text_from_image raises goes to
\* the caller
process_receipt(image) ==
    LET raw_text == extract_text_from_image(image)
    IN  IF raw_text.raised THEN [raised |-> TRUE, value |-> <<>>]
        ELSE [raised |-> FALSE,
              value |-> validate_receipt_data(extracted_data(raw_text.value))]

---------------------------------------------------------------------------
(* export_to_excel                                                         *)

\* a Python object handed to export_to_excel: a dict or a list
PyDict(d) == [type |-> "dict", items |-> d]
PyList(l) == [type |-> "list", items |-> l]

\* dict.get(k, '')
GetOrEmpty(d, k) == IF k \in DOMAIN d THEN d[k] ELSE <<>>

\* the columns of the sheet, in the order of the DataFrame's keys
COLUMNS == <<"FECHA", "VENDEDOR", "TOTAL", "ARTÍCULOS", "TEXTO COMPLETO">>

\* export_to_excel(data): data.get exists on a dict only; on a list the
\* AttributeError is caught and raised again as ValueError, before anything
\* is written.  For a dict the sheet gets one row.
export_to_excel(d) ==
    IF d.type = "dict"
    THEN [raised |-> FALSE,
          rows |-> << <<GetOrEmpty(d.items, "fecha"), GetOrEmpty(d.items, "vendedor"),
                        GetOrEmpty(d.items, "total"), GetOrEmpty(d.items, "articulos"),
                        GetOrEmpty(d.items, "texto_crudo")>> >>]
    ELSE [raised |-> TRUE, rows |-> <<>>]

---------------------------------------------------------------------------
(* web.py: load_all_receipts, save_all_receipts, index                     *)

\* filename.lower().endswith(('.png', '.jpg', '.jpeg'))
is_image_name(filename) ==
    \E ext \in {<<".","p","n","g">>, <<".","j","p","g">>, <<".","j","p","e","g">>} :
        /\ Len(filename) >= Len(ext)
        /\ LitAt(Lower(filename), Len(filename) - Len(ext) + 1, ext)

\* the `missing` list of index(): the fields to warn about
web_missing(d) ==
    (IF ~Truthy(Get(d, "fecha")) \/ Contains(Upper(d["fecha"]), NO_ENCONTRADA)
     THEN <<"Fecha">> ELSE <<>>)
    \o (IF ~Truthy(Get(d, "vendedor")) \/ Contains(Upper(d["vendedor"]), NO_ENCONTRADO)
        THEN <<"Vendedor">> ELSE <<>>)
    \o (IF ~Truthy(Get(d, "total")) \/ Contains(Upper(d["total"]), NO_ENCONTRADO)
        THEN <<"Total">> ELSE <<>>)

---------------------------------------------------------------------------
(* Bounded inputs                                                          *)

\* every concatenation of at most n of the pieces
TextsOf(pieces, n) ==
    {Flatten(ts) : ts \in UNION {[1..k -> pieces] : k \in 0..n}}

MaxVendorPieces == 3

VendorPieces == {
    <<"a","b">>, <<"A","C","M","E">>, <<"1","2">>, <<" ">>, <<"\n">>,
    <<"f","e","c","h","a">>, <<"R","U","T">>, <<"N","I","T">>}

VendorTexts == TextsOf(VendorPieces, MaxVendorPieces)

\* the date texts: a day, a separator, a month, a separator and a year,
\* between at most MaxJunk characters of other text on either side
MaxJunk == 1

JunkChars == {"x", "7"}
Junk == UNION {[1..k -> JunkChars] : k \in 0..MaxJunk}
DateDays == {<<"2","6">>, <<"5">>}
DateSeps == {<<"/">>, <<"-">>, <<" ">>, <<" ","d","e"," ">>}
DateMonths == {<<"0","6">>, <<"j","u","l","i","o">>, <<"J","U","L","I","O">>,
               <<"j","u","l",".">>, <<"J","u","n">>}
DateYears == {<<"2","5">>, <<"9","5">>, <<"2","0","2","5">>}

PlainDates ==
    {d \o s1 \o m \o s2 \o y :
        d \in DateDays, s1 \in DateSeps, m \in DateMonths, s2 \in DateSeps, y \in DateYears}

\* a worded date followed by a numeric one, as the joined pattern wants
DoubleDates ==
    {a \o <<" ">> \o b :
        a \in {<<"5"," ","d","e"," ","j","u","l","."," ","d","e"," ","2","0","2","5">>,
               <<"5"," ","d","e"," ","j","u","l"," ","d"," ","2","0","2","5">>},
        b \in {<<"2","6","/","0","6","/","2","5">>, <<"6","-","6","-","1","9","9","5">>}}

DateTexts ==
    {pre \o t \o post : pre \in Junk, t \in PlainDates \cup DoubleDates, post \in Junk}

MaxTotalLines == 2

\* the lines of a total text: a keyword or none, and an amount in one of the
\* shapes the patterns know, or a number without decimals, some followed by
\* more text
TotalPrefixes == {<<>>, <<"T","O","T","A","L"," ">>}
TotalAmounts == {
    <<"5","0","0","0">>,
    <<"$","1","2",".","9","3","0">>,
    <<"1","2",".","9","3","0",",","0","0">>,
    <<"1","2",".","9","3","0",",","0","0"," ","x">>,
    <<"$"," ","3",",","0","0"," ","x">>,
    <<"1",",","0","0","9",".","9","0">>,
    <<"1",",","0","0","0",",","0","0","0",".","0","0">>,
    <<"7",".","4","0">>}

TotalLineSet == {pre \o amt : pre \in TotalPrefixes, amt \in TotalAmounts}

TotalTexts ==
    {JoinLines(ls) : ls \in UNION {[1..k -> TotalLineSet] : k \in 0..MaxTotalLines}}

\* the recognized texts: at most MaxReceiptLines of these lines
MaxReceiptLines == 2

ReceiptLines == {
    <<" "," ">>,
    <<"A","C","M","E">>,
    <<"1","2","3","4">>,
    <<"2","6","/","0","6","/","2","0","2","5">>,
    <<"T","O","T","A","L"," ","1","2",",","5","0">>,
    <<"T","O","T","A","L"," ","$","1","2",".","9","3","0">>,
    <<"f","e","c","h","a"," ","2","6","/","0","6","/","2","0","2","5"," ","1","2",",","5","0">>}

ReceiptTexts ==
    {JoinLines(ls) : ls \in UNION {[1..k -> ReceiptLines] : k \in 0..MaxReceiptLines}}

Images == {[ok |-> FALSE, text |-> <<>>]} \cup {[ok |-> TRUE, text |-> t] : t \in ReceiptTexts}

\* one {fecha, vendedor, total} dict for each way a key can be absent, None,
\* empty, a sentinel or a value
FechaValues == {PyNone, <<>>, NoneStr, <<"2","6","/","0","6","/","2","0","2","5">>}
VendedorValues == {PyNone, <<>>, VENDEDOR_NO_ENCONTRADO, VENDEDOR_DESCONOCIDO,
                   <<"A","C","M","E">>}
TotalValues == {PyNone, <<>>, TOTAL_NO_ENCONTRADO, <<"$","1","2",",","5","0">>}

Dicts(keys) ==
    {d \in [keys -> FechaValues \cup VendedorValues \cup TotalValues] :
        /\ "fecha" \in keys => d["fecha"] \in FechaValues
        /\ "vendedor" \in keys => d["vendedor"] \in VendedorValues
        /\ "total" \in keys => d["total"] \in TotalValues}

ValidateInputs == UNION {Dicts(keys) : keys \in SUBSET {"fecha", "vendedor", "total"}}

---------------------------------------------------------------------------
(* The web layer at rest, and the function under study at rest            *)

NumRequests == 2
Requests == 1..NumRequests

NoImage == [ok |-> FALSE, text |-> <<>>]

\* what a request can carry: a GET; a POST without the 'receipt' part, with
\* an empty file name, with a file that is no image by its name; and a POST
\* of a.PNG or b.jpg that the recognizer cannot read, reads as blank, or
\* reads as a receipt
WebImages == {
    NoImage,
    [ok |-> TRUE, text |-> <<" ">>],
    [ok |-> TRUE, text |-> <<"A","C","M","E","\n","2","6","/","0","6","/","2","0","2","5","\n",
                             "T","O","T","A","L"," ","1","2",",","5","0">>]}

Uploads ==
    {[method |-> "GET", part |-> FALSE, filename |-> <<>>, image |-> NoImage],
     [method |-> "POST", part |-> FALSE, filename |-> <<>>, image |-> NoImage],
     [method |-> "POST", part |-> TRUE, filename |-> <<>>, image |-> NoImage],
     [method |-> "POST", part |-> TRUE, filename |-> <<"a",".","p","d","f">>, image |-> NoImage]}
    \cup {[method |-> "POST", part |-> TRUE, filename |-> <<"a",".","P","N","G">>, image |-> i] :
            i \in WebImages}

NoUpload == [method |-> "none", part |-> FALSE, filename |-> <<>>, image |-> NoImage]
NoResponse == [page |-> "none", flash |-> "none"]

WebIdle ==
    /\ pc = [r \in Requests |-> "idle"]
    /\ upload = [r \in Requests |-> NoUpload]
    /\ data = [r \in Requests |-> <<>>]
    /\ all_receipts = [r \in Requests |-> <<>>]
    /\ store = <<>>
    /\ folder = NoImage
    /\ excel = <<>>
    /\ response = [r \in Requests |-> NoResponse]
    /\ saved = {}

FuncIdle ==
    /\ input = PyNone
    /\ output = PyNone
    /\ output2 = PyNone
    /\ stage = "input"

---------------------------------------------------------------------------
(* validate_receipt_data applied to a dict, and then to its own result     *)

InitValidate ==
    /\ WebIdle
    /\ input \in ValidateInputs
    /\ output = PyNone
    /\ output2 = PyNone
    /\ stage = "input"

Validate ==
    /\ stage = "input"
    /\ output' = validate_receipt_data(input)
    /\ stage' = "done"
    /\ UNCHANGED <<input, output2>>
    /\ UNCHANGED webVars

Revalidate ==
    /\ stage = "done"
    /\ output2' = validate_receipt_data(output)
    /\ stage' = "again"
    /\ UNCHANGED <<input, output>>
    /\ UNCHANGED webVars

NextValidate == Validate \/ Revalidate

SpecValidate == InitValidate /\ [][NextValidate]_vars

\* C2: whatever dict validate_receipt_data is given, es_valido equals
\* "campos_faltantes is empty", validation_details has exactly the keys fecha,
\* vendedor and total, and validating the result again gives the same
\* es_valido and campos_faltantes.
C2_ValidatorConsistent ==
    /\ stage \in {"done", "again"} =>
        /\ output["es_valido"] = (output["campos_faltantes"] = <<>>)
        /\ DOMAIN output["validation_details"] = {"fecha", "vendedor", "total"}
    /\ stage = "again" =>
        /\ output2["es_valido"] = (output2["campos_faltantes"] = <<>>)
        /\ DOMAIN output2["validation_details"] = {"fecha", "vendedor", "total"}
        /\ output2["es_valido"] = output["es_valido"]
        /\ output2["campos_faltantes"] = output["campos_faltantes"]

\* C2 witness: a dict with a sentinel total and no fecha key was validated
\* twice and reported exactly those two fields both times.
C2_Witness ==
    /\ stage = "again"
    /\ "fecha" \notin DOMAIN input
    /\ Get(input, "vendedor") = <<"A","C","M","E">>
    /\ Get(input, "total") = TOTAL_NO_ENCONTRADO
    /\ output2["campos_faltantes"] = <<"fecha", "total">>
    /\ ~output2["es_valido"]

---------------------------------------------------------------------------
(* extract_vendor applied to a text                                        *)

InitVendor ==
    /\ WebIdle
    /\ input \in VendorTexts
    /\ output = PyNone
    /\ output2 = PyNone
    /\ stage = "input"

ApplyVendor ==
    /\ stage = "input"
    /\ output' = extract_vendor(input)
    /\ stage' = "done"
    /\ UNCHANGED <<input, output2>>
    /\ UNCHANGED webVars

NextVendor == ApplyVendor

SpecVendor == InitVendor /\ [][NextVendor]_vars


\* the stripped lines of the input, and the non-empty ones among them
InputLines == vendor_lines(input)
NonEmptyLines == {i \in 1..Len(InputLines) : InputLines[i] # <<>>}
FirstNonEmpty == InputLines[CHOOSE i \in NonEmptyLines : \A j \in NonEmptyLines : i <= j]

\* the lines longer than 3 characters that hold none of the words espacio
\* para, logo, nota, factura, recibo, cod, fecha, nit, gran contribuyente
UsableLines ==
    {i \in 1..Len(InputLines) :
        /\ Len(InputLines[i]) >= 4
        /\ \A w \in {<<"e","s","p","a","c","i","o"," ","p","a","r","a">>,
                     <<"l","o","g","o">>, <<"n","o","t","a">>,
                     <<"f","a","c","t","u","r","a">>, <<"r","e","c","i","b","o">>,
                     <<"c","o","d">>, <<"f","e","c","h","a">>, <<"n","i","t">>,
                     <<"g","r","a","n"," ","c","o","n","t","r","i","b","u","y","e","n","t","e">>} :
              \A k \in 1..Len(InputLines[i]) : ~LitAt(Lower(InputLines[i]), k, w)}
FirstUsable == InputLines[CHOOSE i \in UsableLines : \A j \in UsableLines : i <= j]

\* the first place in line where NIT, Nit, RUT or RUC stands, and the part of
\* line before it (all of line when none stands in it)
MarkerPlaces(line) ==
    {k \in 1..Len(line) :
        \E m \in {<<"N","I","T">>, <<"N","i","t">>, <<"R","U","T">>, <<"R","U","C">>} :
            LitAt(line, k, m)}
BeforeMarker(line) ==
    IF MarkerPlaces(line) = {} THEN line
    ELSE SubSeq(line, 1,
            (CHOOSE k \in MarkerPlaces(line) : \A j \in MarkerPlaces(line) : k <= j) - 1)

\* the vendor a line gives: the part before its first tax-id marker, without
\* its digits, trimmed; 'VENDEDOR NO ENCONTRADO' when nothing is left
VendorOf(line) ==
    LET v == Strip(SelectSeq(BeforeMarker(line), LAMBDA c : ~IsDigit(c)))
    IN  IF v # <<>> THEN v ELSE VENDEDOR_NO_ENCONTRADO

\* C4 as stated: extract_vendor never returns the empty string, returns
\* 'Vendedor desconocido' for a text with no non-empty line, and for a text
\* with a non-empty line returns the vendor taken from the first non-empty
\* line (there is no earlier strategy in the code that could select another).
C4_FirstNonEmptyLine ==
    stage = "done" =>
        /\ output # <<>>
        /\ NonEmptyLines = {} => output = VENDEDOR_DESCONOCIDO
        /\ NonEmptyLines # {} => output = VendorOf(FirstNonEmpty)

\* C4 amended: extract_vendor never returns the empty string; it returns
\* 'Vendedor desconocido' for a text with no non-empty line, and for any
\* text none of whose lines is longer than 3 characters and free of the
\* blacklisted words; otherwise it returns the vendor taken from the first
\* such line (the part before its first tax-id marker, digits dropped,
\* trimmed), or 'VENDEDOR NO ENCONTRADO' when nothing is left of that part.
C4_FirstUsableLine ==
    stage = "done" =>
        /\ output # <<>>
        /\ NonEmptyLines = {} => output = VENDEDOR_DESCONOCIDO
        /\ UsableLines = {} => output = VENDEDOR_DESCONOCIDO
        /\ UsableLines # {} => output = VendorOf(FirstUsable)

\* C4 witness: a short first line is passed over and the vendor comes from
\* the second line.
C4_Witness ==
    /\ stage = "done"
    /\ input = <<"a","b","\n","A","C","M","E">>
    /\ output = <<"A","C","M","E">>

---------------------------------------------------------------------------
(* extract_total applied to a text                                         *)

InitTotal ==
    /\ WebIdle
    /\ input \in TotalTexts
    /\ output = PyNone
    /\ output2 = PyNone
    /\ stage = "input"

ApplyTotal ==
    /\ stage = "input"
    /\ output' = extract_total(input)
    /\ stage' = "done"
    /\ UNCHANGED <<input, output2>>
    /\ UNCHANGED webVars

NextTotal == ApplyTotal

SpecTotal == InitTotal /\ [][NextTotal]_vars


\* the lines of the input and, lower-cased, those that hold a keyword
TextLines == Split(input, <<"\n">>)
KeywordLines ==
    SelectSeq([i \in 1..Len(TextLines) |-> Lower(TextLines[i])],
        LAMBDA l : \E k \in 1..Len(l) :
            \/ LitAt(l, k, <<"t","o","t","a","l">>)
            \/ LitAt(l, k, <<"p","a","g","a","r">>)
            \/ LitAt(l, k, <<"i","m","p","o","r","t","e">>))

\* the numbers written in s: each longest run of digits, '.' and ',' that
\* holds a digit, read as the integer its digits spell
NumberChars == {"0","1","2","3","4","5","6","7","8","9",".",","}
NumbersIn(s) ==
    {NatOf(SelectSeq(SubSeq(s, i, j), IsDigit)) :
        <<i, j>> \in {ij \in (1..Len(s)) \X (1..Len(s)) :
            /\ ij[1] <= ij[2]
            /\ \A k \in ij[1]..ij[2] : s[k] \in NumberChars
            /\ \E k \in ij[1]..ij[2] : IsDigit(s[k])
            /\ ij[1] = 1 \/ s[ij[1] - 1] \notin NumberChars
            /\ ij[2] = Len(s) \/ s[ij[2] + 1] \notin NumberChars}}

NumbersOfLines(ls) == UNION {NumbersIn(ls[i]) : i \in 1..Len(ls)}

Maximum(S) == CHOOSE n \in S : \A m \in S : m <= n

\* '$' and n with its thousands grouped by '.'
RECURSIVE Grouped(_)
Grouped(n) ==
    IF n < 1000 THEN DigitsOf(n)
    ELSE Grouped(n \div 1000) \o <<".">>
         \o <<DigitsOf((n \div 100) % 10)[1], DigitsOf((n \div 10) % 10)[1], DigitsOf(n % 10)[1]>>

IsMoney(s) ==
    /\ Len(s) >= 5
    /\ s[1] = "$"
    /\ s[Len(s) - 2] = ","
    /\ \A k \in 2..Len(s) : k # Len(s) - 2 => IsDigit(s[k])

\* a digit, '.' or ',', and two digits stand somewhere in s
HasDecimals(s) ==
    \E k \in 1..(Len(s) - 3) :
        /\ IsDigit(s[k]) /\ s[k + 1] \in {".", ","}
        /\ IsDigit(s[k + 2]) /\ IsDigit(s[k + 3])

---------------------------------------------------------------------------
(* extract_spanish_date applied to a text                                  *)

InitDate ==
    /\ WebIdle
    /\ input \in DateTexts
    /\ output = PyNone
    /\ output2 = PyNone
    /\ stage = "input"

ApplyDate ==
    /\ stage = "input"
    /\ output' = extract_spanish_date(input)
    /\ stage' = "done"
    /\ UNCHANGED <<input, output2>>
    /\ UNCHANGED webVars

NextDate == ApplyDate

SpecDate == InitDate /\ [][NextDate]_vars


\* s[i..i+7] is DD/MM/YY or DD-MM-YY, with no digit before or after it
ShortDateAt(s, i) ==
    /\ NotDigitAt(s, i - 1) /\ DigitsFrom(s, i) = 2
    /\ IsSep(s, i + 2) /\ DigitsFrom(s, i + 3) = 2
    /\ IsSep(s, i + 5) /\ s[i + 5] = s[i + 2]
    /\ DigitsFrom(s, i + 6) = 2

\* C5: for a text whose only date-shaped token is DD/MM/YY or DD-MM-YY,
\* extract_spanish_date returns DD/MM/20YY when YY < 30 and DD/MM/19YY
\* otherwise, and not None.
C5_TwoDigitYearPivot ==
    stage = "done" =>
        \A i \in 1..Len(input) :
            (ShortDateAt(input, i) /\ Len(SelectSeq(input, IsDigit)) = 6) =>
                output = <<input[i], input[i + 1], "/", input[i + 3], input[i + 4], "/">>
                         \o (IF NatOf(SubSeq(input, i + 6, i + 7)) < 30
                             THEN <<"2","0">> ELSE <<"1","9">>)
                         \o SubSeq(input, i + 6, i + 7)

\* the month names in calendar order, enero first
CalendarMonths == <<
    <<"e","n","e","r","o">>, <<"f","e","b","r","e","r","o">>, <<"m","a","r","z","o">>,
    <<"a","b","r","i","l">>, <<"m","a","y","o">>, <<"j","u","n","i","o">>,
    <<"j","u","l","i","o">>, <<"a","g","o","s","t","o">>,
    <<"s","e","p","t","i","e","m","b","r","e">>, <<"o","c","t","u","b","r","e">>,
    <<"n","o","v","i","e","m","b","r","e">>, <<"d","i","c","i","e","m","b","r","e">>>>

\* s is `day`, `middle` and four digits, in any letter case
IsWordedDate(s, day, middle) ==
    /\ Len(s) = Len(day) + Len(middle) + 4
    /\ LitAt(Lower(s), 1, day \o middle)
    /\ DigitsFrom(s, Len(s) - 3) = 4

\* C6: for a text that is 'DD de <month> de YYYY' or 'DD <abbr>. YYYY', in
\* any letter case, extract_spanish_date returns DD/MM/YYYY with MM the
\* two-digit calendar number of the month; every result other than None
\* consists of digits and '/' only.
C6_MonthNameToNumber ==
    stage = "done" =>
        /\ output # PyNone => \A k \in 1..Len(output) : IsDigit(output[k]) \/ output[k] = "/"
        /\ \A n \in 1..12 : \A day \in {SubSeq(input, 1, 1), SubSeq(input, 1, 2)} :
            (/\ day # <<>> /\ \A k \in 1..Len(day) : IsDigit(day[k])
             /\ \/ IsWordedDate(input, day,
                        <<" ","d","e"," ">> \o CalendarMonths[n] \o <<" ","d","e"," ">>)
                \/ IsWordedDate(input, day,
                        <<" ">> \o SubSeq(CalendarMonths[n], 1, 3) \o <<"."," ">>))
            => output = Zfill2(day) \o <<"/">> \o Zfill2(DigitsOf(n)) \o <<"/">>
                        \o SubSeq(input, Len(input) - 3, Len(input))

---------------------------------------------------------------------------
(* process_receipt applied to an image                                     *)

InitProcess ==
    /\ WebIdle
    /\ input \in Images
    /\ output = PyNone
    /\ output2 = PyNone
    /\ stage = "input"

ProcessReceipt ==
    /\ stage = "input"
    /\ output' = process_receipt(input)
    /\ stage' = "done"
    /\ UNCHANGED <<input, output2>>
    /\ UNCHANGED webVars

NextProcess == ProcessReceipt

SpecProcess == InitProcess /\ [][NextProcess]_vars

RecordKeys ==
    {"fecha", "vendedor", "total", "articulos", "texto_crudo",
     "es_valido", "campos_faltantes", "validation_details"}

\* C1 as stated: process_receipt never raises, whatever the image, and
\* returns a record with all eight fields and a boolean es_valido.
C1_NeverRaises ==
    stage = "done" =>
        /\ ~output.raised
        /\ DOMAIN output.value = RecordKeys
        /\ output.value["es_valido"] \in BOOLEAN

\* C1 amended: whenever the text-recognition step succeeds, process_receipt
\* returns a record with all eight fields and a boolean es_valido, and no
\* extractor raises; a failure of the text-recognition step is passed on to
\* the caller as a ValueError.
C1_RaisesOnlyWhenRecognitionFails ==
    stage = "done" =>
        /\ output.raised <=> ~input.ok
        /\ ~output.raised =>
            /\ DOMAIN output.value = RecordKeys
            /\ output.value["es_valido"] \in BOOLEAN
            /\ output.value["texto_crudo"] = Strip(input.text)

\* C1 witness: a blank recognized text, from which no extractor finds
\* anything, still gives a complete record.
C1_Witness ==
    /\ stage = "done"
    /\ input.ok /\ input.text = <<" "," ">>
    /\ ~output.raised
    /\ DOMAIN output.value = RecordKeys
    /\ output.value["campos_faltantes"] = <<"fecha", "total">>

\* C3: in a record assembled from the extractors' results and validated,
\* es_valido is true iff the date is present and the vendor and the total
\* are non-empty and no sentinel; a placeholder vendor ('VENDEDOR NO
\* ENCONTRADO' or 'Vendedor desconocido'), the total sentinel or a None date
\* makes es_valido false and puts the field's name in campos_faltantes.
C3_SentinelsAreMissing ==
    (stage = "done" /\ ~output.raised) =>
        LET r == output.value
            missing == {r["campos_faltantes"][k] : k \in 1..Len(r["campos_faltantes"])}
            noDate == r["fecha"] = PyNone
            noVendor == r["vendedor"] \in {<<>>, VENDEDOR_NO_ENCONTRADO, VENDEDOR_DESCONOCIDO}
            noTotal == r["total"] \in {<<>>, TOTAL_NO_ENCONTRADO}
        IN  /\ r["es_valido"] <=> (~noDate /\ ~noVendor /\ ~noTotal)
            /\ noDate => (~r["es_valido"] /\ "fecha" \in missing)
            /\ noVendor => (~r["es_valido"] /\ "vendedor" \in missing)
            /\ noTotal => (~r["es_valido"] /\ "total" \in missing)

---------------------------------------------------------------------------
(* The upload handler: requests served by concurrent threads               *)

Init == WebIdle /\ FuncIdle

\* index() up to file.save: a GET renders the form; a POST without the part,
\* without a file name or with a name that is no image name is answered with
\* a flashed message and a redirect; otherwise the file is saved under its
\* name in the upload folder
Receive(r, u) ==
    /\ pc[r] = "idle"
    /\ upload' = [upload EXCEPT ![r] = u]
    /\ IF u.method = "GET"
       THEN /\ response' = [response EXCEPT ![r] = [page |-> "index.html", flash |-> "none"]]
            /\ pc' = [pc EXCEPT ![r] = "done"]
            /\ UNCHANGED folder
       ELSE IF ~u.part \/ u.filename = <<>> \/ ~is_image_name(u.filename)
       THEN /\ response' = [response EXCEPT ![r] = [page |-> "redirect", flash |-> "danger"]]
            /\ pc' = [pc EXCEPT ![r] = "done"]
            /\ UNCHANGED folder
       ELSE /\ folder' = u.image
            /\ pc' = [pc EXCEPT ![r] = "process"]
            /\ UNCHANGED response
    /\ UNCHANGED <<data, all_receipts, store, excel, saved>>
    /\ UNCHANGED funcVars

\* data = process_receipt(filepath); an exception goes to the except clause:
\* a flashed message and a redirect
Process(r) ==
    /\ pc[r] = "process"
    /\ LET res == process_receipt(folder)
       IN  IF res.raised
           THEN /\ response' = [response EXCEPT ![r] = [page |-> "redirect", flash |-> "danger"]]
                /\ pc' = [pc EXCEPT ![r] = "done"]
                /\ UNCHANGED data
           ELSE /\ data' = [data EXCEPT ![r] = res.value]
                /\ pc' = [pc EXCEPT ![r] = "load"]
                /\ UNCHANGED response
    /\ UNCHANGED <<upload, all_receipts, store, folder, excel, saved>>
    /\ UNCHANGED funcVars

\* all_receipts = load_all_receipts(): the list in recibos.json, [] without
\* the file
Load(r) ==
    /\ pc[r] = "load"
    /\ all_receipts' = [all_receipts EXCEPT ![r] = store]
    /\ pc' = [pc EXCEPT ![r] = "append"]
    /\ UNCHANGED <<upload, data, store, folder, excel, response, saved>>
    /\ UNCHANGED funcVars

\* all_receipts.append(data)
AppendData(r) ==
    /\ pc[r] = "append"
    /\ all_receipts' = [all_receipts EXCEPT ![r] = Append(all_receipts[r], data[r])]
    /\ pc' = [pc EXCEPT ![r] = "save"]
    /\ UNCHANGED <<upload, data, store, folder, excel, response, saved>>
    /\ UNCHANGED funcVars

\* save_all_receipts(all_receipts): recibos.json is written anew
Save(r) ==
    /\ pc[r] = "save"
    /\ store' = all_receipts[r]
    /\ saved' = saved \cup {r}
    /\ pc' = [pc EXCEPT ![r] = "export"]
    /\ UNCHANGED <<upload, data, all_receipts, folder, excel, response>>
    /\ UNCHANGED funcVars

\* export_to_excel(all_receipts, ...) and the rest of the try block: the
\* warning about missing fields and the result page; an exception goes to
\* the except clause
Export(r) ==
    /\ pc[r] = "export"
    /\ LET res == export_to_excel(PyList(all_receipts[r]))
       IN  IF res.raised
           THEN /\ response' = [response EXCEPT ![r] = [page |-> "redirect", flash |-> "danger"]]
                /\ UNCHANGED excel
           ELSE /\ excel' = res.rows
                /\ response' = [response EXCEPT ![r] =
                        [page |-> "result.html",
                         flash |-> IF web_missing(data[r]) # <<>> THEN "warning" ELSE "none"]]
    /\ pc' = [pc EXCEPT ![r] = "done"]
    /\ UNCHANGED <<upload, data, all_receipts, store, folder, saved>>
    /\ UNCHANGED funcVars

Next ==
    \E r \in Requests :
        \/ \E u \in Uploads : Receive(r, u)
        \/ Process(r)
        \/ Load(r)
        \/ AppendData(r)
        \/ Save(r)
        \/ Export(r)

Spec == Init /\ [][Next]_vars

\* C8: export_to_excel, given the list of n >= 1 records that the upload
\* handler passes, completes without error and writes one row per record
\* under the columns date, vendor, total, items, raw text.
C8_ExportAcceptsList ==
    \A r \in Requests :
        (pc[r] = "done" /\ r \in saved) =>
            /\ ~export_to_excel(PyList(all_receipts[r])).raised
            /\ response[r].page = "result.html"
            /\ Len(excel) = Len(all_receipts[r])

\* C9: when every request has been answered, recibos.json holds one entry
\* for each request whose receipt was processed and saved.
C9_NoLostAppend ==
    (\A r \in Requests : pc[r] = "done") => Len(store) = Cardinality(saved)

\* C10: a request answered from the except clause (flashed error, redirect)
\* has not changed recibos.json; only a request answered with the result
\* page has appended to it.
C10_ErrorLeavesStore ==
    \A r \in Requests :
        /\ (pc[r] = "done" /\ response[r].page = "redirect") => r \notin saved
        /\ (pc[r] = "done" /\ r \in saved) => response[r].page = "result.html"

=============================================================================
